---- MODULE Spec2Model ----
(***************************************************************************)
(* Model of the vision service: the frame loop of face_detection.py (the   *)
(* presence tracker, the closest-face selector, the recognition trigger)   *)
(* and the recognition service of face_recognizer.py (start-up cleanup and *)
(* the check_file handler), which share the files PATH/request, PATH/out.  *)
(***************************************************************************)
EXTENDS Integers, Sequences, FiniteSets, TLC

\* ------------------------------------------------------------------------
\* Program constants
\* ------------------------------------------------------------------------
FACE_AREA == 1500
\* the literal 3 of "no_face_detect_counter > 3"
MISS_LIMIT == 3

\* ------------------------------------------------------------------------
\* Bounds of the model
\* ------------------------------------------------------------------------
\* camera frames delivered in one run
MaxFrames == 8
\* bounding boxes in one detection list handed to the selector
MaxBoxes == 3
\* bounding boxes the detector reports in one frame
MaxFaces == 2
\* concurrently running check_file handlers of the service
NumHandlers == 2

\* bounding boxes (left, top, right, bottom) a detection may hold; the areas
\* are 50, 100, 1500, 2000 and 2000
BoxSet ==
  { <<0, 0, 5, 10>>, <<0, 0, 10, 10>>, <<0, 0, 30, 50>>,
    <<0, 0, 40, 50>>, <<10, 10, 60, 50>> }

BoxLists == UNION { [1..n -> BoxSet] : n \in 0..MaxBoxes }

FrameLists == UNION { [1..n -> BoxSet] : n \in 0..MaxFaces }

Handlers == 1..NumHandlers

NoFile == "<absent>"

VARIABLES
  vpc,                     \* position of the face_detection.py process
  face_nearby,             \* face_detection.py: face_nearby
  no_face_detect_counter,  \* face_detection.py: no_face_detect_counter
  jobs,                    \* recognize_face threads started by the frame loop
  selected,                \* index get_closest_face last gave the frame loop, -1 before any call
  env,                     \* is VISION_COMM_PATH set in the environment
  rpc,                     \* position of the face_recognizer.py process
  request,                 \* does PATH/request exist
  out,                     \* content of PATH/out, or NoFile
  cpc,                     \* position of each check_file handler
  name,                    \* check_file: local variable name of each handler
  ret,                     \* value the last finished call of each handler returned
  ops,                     \* history: file operations of each handler's current call
  gpc,                     \* state of the peer that answers requests, "absent" without one
  nframes,                 \* history: camera frames delivered so far
  hist,                    \* history: (kind, presence after, read by the loop) of the last three frames
  faces_seen,              \* history: has a frame with a bounding box been delivered
  run,                     \* history: non-qualifying frames since the last qualifying one
  runFromPresent,          \* history: face_nearby held when the current run began
  scen,                    \* history: position in the end-to-end scenario, -1 when off it
  called,                  \* history: has any check_file call arrived
  sel_bbs,                 \* argument of the function calls under test
  sel_ret,                 \* outcome of get_closest_face(sel_bbs)
  det_ret                  \* outcome of face_detected(sel_bbs)

vars ==
  << vpc, face_nearby, no_face_detect_counter, jobs, selected, env, rpc, request, out,
     cpc, name, ret, ops, gpc, nframes, hist, faces_seen, run, runFromPresent, scen, called, sel_bbs,
     sel_ret, det_ret >>

visionVars == << vpc, face_nearby, no_face_detect_counter, jobs, selected >>
fileVars == << request, out >>
recVars == << env, rpc >>
handlerVars == << cpc, name, ret, ops >>
frameHist == << nframes, hist, faces_seen, run, runFromPresent, scen >>
histVars == << frameHist, called >>
selVars == << sel_bbs, sel_ret, det_ret >>

\* ------------------------------------------------------------------------
\* Pure functions of face_detection.py
\* ------------------------------------------------------------------------
\* tmp_face_area = (right - left) * (bottom - top)
Area(bb) == (bb[3] - bb[1]) * (bb[4] - bb[2])

RECURSIVE closest_loop(_, _, _, _)
closest_loop(bbs, i, max_id, face_area) ==
  IF i = Len(bbs) THEN max_id
  ELSE IF Area(bbs[i + 1]) > face_area
       THEN closest_loop(bbs, i + 1, i, Area(bbs[i + 1]))
       ELSE closest_loop(bbs, i + 1, max_id, face_area)

RECURSIVE closest_loop_last(_, _, _, _)
closest_loop_last(bbs, i, max_id, face_area) ==
  IF i = Len(bbs) THEN max_id
  ELSE IF Area(bbs[i + 1]) >= face_area
       THEN closest_loop_last(bbs, i + 1, i, Area(bbs[i + 1]))
       ELSE closest_loop_last(bbs, i + 1, max_id, face_area)

\* get_closest_face with ">=" in place of ">": the last of the tied boxes wins
get_closest_face_last(bbs) == closest_loop_last(bbs, 0, 0, 0)

\* the (0-based) index get_closest_face returns
get_closest_face(bbs) == closest_loop(bbs, 0, 0, 0)

RECURSIVE detected_loop(_, _, _)
detected_loop(bbs, i, face_area) ==
  IF i = Len(bbs) THEN face_area
  ELSE IF Area(bbs[i + 1]) > face_area
       THEN detected_loop(bbs, i + 1, Area(bbs[i + 1]))
       ELSE detected_loop(bbs, i + 1, face_area)

\* face_detected with ">=" in place of ">" at line 149
face_detected_ge(bbs) == detected_loop(bbs, 0, 0) >= FACE_AREA

face_detected(bbs) == detected_loop(bbs, 0, 0) > FACE_AREA

\* "start_recognize_face = True": the trigger as it would be with the flag set
start_recognize_face_set == "True"

\* the evaluation of "start_recognize_face = false": no name false is bound in
\* the module or in the builtins, so the statement raises NameError
start_recognize_face == "NameError"

\* ------------------------------------------------------------------------
\* Vocabulary of the presence tracker's contract
\* ------------------------------------------------------------------------
Max(S) == CHOOSE x \in S : \A y \in S : y <= x

MaxAreaOf(bbs) == Max({0} \cup { Area(bbs[k]) : k \in 1..Len(bbs) })

\* "E" an empty frame, "Q" a qualifying frame, "N" a non-empty non-qualifying one
Kind(bbs) ==
  IF Len(bbs) = 0 THEN "E"
  ELSE IF MaxAreaOf(bbs) > FACE_AREA THEN "Q" ELSE "N"

\* the presence the process holds; a process that has exited holds none
PresenceOf(pc, nearby) ==
  IF pc = "crashed" THEN "None" ELSE IF nearby THEN "Present" ELSE "Absent"

Presence == PresenceOf(vpc, face_nearby)

ScenarioAreas == << 50, 2000, 2000, 2000, 50, 50, 50, 50 >>

ScenarioPresence ==
  << "Absent", "Present", "Present", "Present",
     "Present", "Present", "Present", "Absent" >>

\* ------------------------------------------------------------------------
\* Initial state
\* ------------------------------------------------------------------------
InitProgram ==
  /\ vpc = "init"
  /\ face_nearby = FALSE
  /\ no_face_detect_counter = 0
  /\ jobs = 0
  /\ selected = -1
  /\ env \in BOOLEAN
  /\ rpc = "import"
  /\ request \in BOOLEAN
  /\ out \in {NoFile, "stale"}
  /\ cpc = [c \in Handlers |-> "idle"]
  /\ name = [c \in Handlers |-> ""]
  /\ ret = [c \in Handlers |-> "<none>"]
  /\ ops = [c \in Handlers |-> << >>]
  /\ nframes = 0
  /\ hist = << >>
  /\ faces_seen = FALSE
  /\ run = 0
  /\ runFromPresent = FALSE
  /\ scen = 0
  /\ called = FALSE

Init ==
  /\ InitProgram
  /\ gpc = "absent"
  /\ sel_bbs = << >>
  /\ sel_ret = [outcome |-> "pending", value |-> 0]
  /\ det_ret = [outcome |-> "pending", value |-> FALSE]

\* ------------------------------------------------------------------------
\* face_detection.py, __main__
\* ------------------------------------------------------------------------
\* lines 238-286: initialisation up to "Starting detection..."; no file of the
\* protocol is touched
VisionInit ==
  /\ vpc = "init"
  /\ vpc' = "loop"
  /\ face_nearby' = FALSE
  /\ no_face_detect_counter' = 0
  /\ UNCHANGED << gpc, jobs, selected, recVars, fileVars, handlerVars, histVars, selVars >>

\* history of the frames the camera delivered
Observe(bbs, read) ==
  LET k == Kind(bbs)
      p == PresenceOf(vpc', face_nearby')
  IN /\ nframes' = nframes + 1
     /\ hist' = IF Len(hist) < 3
                THEN Append(hist, << k, p, read >>)
                ELSE Append(Tail(hist), << k, p, read >>)
     /\ faces_seen' = (faces_seen \/ Len(bbs) > 0)
     /\ run' = IF k = "Q" THEN 0
               ELSE IF run > MISS_LIMIT THEN MISS_LIMIT + 2 ELSE run + 1
     /\ runFromPresent' = IF k = "Q" THEN FALSE
                          ELSE IF run = 0 THEN face_nearby ELSE runFromPresent
     /\ scen' = IF /\ scen >= 0
                   /\ scen < Len(ScenarioAreas)
                   /\ Len(bbs) = 1
                   /\ Area(bbs[1]) = ScenarioAreas[scen + 1]
                THEN scen + 1
                ELSE -1

\* lines 306-314 without "no_face_detect_counter += 1"
FrameEmpty_nocount ==
  /\ vpc = "loop"
  /\ nframes < MaxFrames
  /\ no_face_detect_counter' = no_face_detect_counter
  /\ face_nearby' = IF no_face_detect_counter' > MISS_LIMIT THEN FALSE ELSE face_nearby
  /\ vpc' = "loop"
  /\ Observe(<< >>, TRUE)
  /\ UNCHANGED << gpc, jobs, selected, recVars, fileVars, handlerVars, called, selVars >>

\* lines 306-314: a frame without bounding boxes
FrameEmpty ==
  /\ vpc = "loop"
  /\ nframes < MaxFrames
  /\ no_face_detect_counter' = no_face_detect_counter + 1
  /\ face_nearby' = IF no_face_detect_counter' > MISS_LIMIT THEN FALSE ELSE face_nearby
  /\ vpc' = "loop"
  /\ Observe(<< >>, TRUE)
  /\ UNCHANGED << gpc, jobs, selected, recVars, fileVars, handlerVars, called, selVars >>

\* lines 316-341: a frame with bounding boxes
FrameFaces(bbs) ==
  /\ vpc = "loop"
  /\ nframes < MaxFrames
  /\ Len(bbs) > 0
  /\ IF face_detected(bbs)
     THEN /\ face_nearby' = TRUE
          /\ no_face_detect_counter' = no_face_detect_counter
     ELSE /\ no_face_detect_counter' = no_face_detect_counter + 1
          /\ face_nearby' = IF no_face_detect_counter' > MISS_LIMIT THEN FALSE ELSE face_nearby
  /\ IF start_recognize_face = "NameError"
     THEN /\ vpc' = "crashed"
          /\ jobs' = jobs
          /\ selected' = selected
     ELSE /\ vpc' = "loop"
          /\ jobs' = IF start_recognize_face = "True" THEN jobs + 1 ELSE jobs
          /\ selected' = IF start_recognize_face = "True"
                         THEN get_closest_face(bbs) ELSE selected
  /\ Observe(bbs, TRUE)
  /\ UNCHANGED << gpc, recVars, fileVars, handlerVars, called, selVars >>

\* the camera delivers a frame after the process has exited: nobody reads it
FrameUnread(bbs) ==
  /\ vpc = "crashed"
  /\ nframes < MaxFrames
  /\ UNCHANGED << gpc, visionVars, recVars, fileVars, handlerVars, called, selVars >>
  /\ Observe(bbs, FALSE)

\* ------------------------------------------------------------------------
\* face_recognizer.py
\* ------------------------------------------------------------------------
\* line 8 as os.environ.get('VISION_COMM_PATH', ''): no KeyError when unset
RecImport_default ==
  /\ rpc = "import"
  /\ rpc' = "clean_out"
  /\ UNCHANGED << gpc, env, visionVars, fileVars, handlerVars, histVars, selVars >>

\* line 8: PATH = os.environ['VISION_COMM_PATH'] raises KeyError when unset
RecImport ==
  /\ rpc = "import"
  /\ rpc' = IF env THEN "clean_out" ELSE "aborted"
  /\ UNCHANGED << gpc, env, visionVars, fileVars, handlerVars, histVars, selVars >>

\* lines 28-29
RecCleanOut ==
  /\ rpc = "clean_out"
  /\ out' = NoFile
  /\ rpc' = "clean_request"
  /\ UNCHANGED << gpc, env, request, visionVars, handlerVars, histVars, selVars >>

\* lines 30-31
RecCleanRequest ==
  /\ rpc = "clean_request"
  /\ request' = FALSE
  /\ rpc' = "serve"
  /\ UNCHANGED << gpc, env, out, visionVars, handlerVars, histVars, selVars >>

\* lines 21-25: the service is registered and the process spins
recognize_face_server ==
  /\ rpc = "serve"
  /\ rpc' = "spin"
  /\ UNCHANGED << gpc, env, fileVars, visionVars, handlerVars, histVars, selVars >>

\* lines 10-12: a call arrives; os.mknod raises OSError when request exists
check_file_mknod(c) ==
  /\ rpc = "spin"
  /\ cpc[c] \in {"idle", "error"}
  /\ name' = [name EXCEPT ![c] = ""]
  /\ IF request
     THEN /\ cpc' = [cpc EXCEPT ![c] = "error"]
          /\ request' = request
          /\ ops' = [ops EXCEPT ![c] = << >>]
     ELSE /\ cpc' = [cpc EXCEPT ![c] = "poll"]
          /\ request' = TRUE
          /\ ops' = [ops EXCEPT ![c] = << <<"create", "request">> >>]
  /\ called' = TRUE
  /\ UNCHANGED << gpc, ret, out, recVars, visionVars, frameHist, selVars >>

\* lines 13-15: one test of the poll loop
check_file_poll(c) ==
  /\ cpc[c] = "poll"
  /\ cpc' = IF out # NoFile THEN [cpc EXCEPT ![c] = "read"] ELSE cpc
  /\ ops' = IF out # NoFile
            THEN [ops EXCEPT ![c] = Append(@, <<"exists", "out">>)]
            ELSE ops
  /\ UNCHANGED << gpc, name, ret, fileVars, recVars, visionVars, histVars, selVars >>

\* lines 16-17: open and read out; open raises IOError when out is gone
check_file_read(c) ==
  /\ cpc[c] = "read"
  /\ IF out = NoFile
     THEN /\ cpc' = [cpc EXCEPT ![c] = "error"]
          /\ UNCHANGED << name, ops >>
     ELSE /\ cpc' = [cpc EXCEPT ![c] = "remove"]
          /\ name' = [name EXCEPT ![c] = out]
          /\ ops' = [ops EXCEPT ![c] = Append(@, <<"read", out>>)]
  /\ UNCHANGED << gpc, ret, fileVars, recVars, visionVars, histVars, selVars >>

\* check_file without line 18: out is left in place
check_file_keep(c) ==
  /\ cpc[c] = "remove"
  /\ cpc' = [cpc EXCEPT ![c] = "return"]
  /\ UNCHANGED << gpc, out, ops, name, ret, request, recVars, visionVars, histVars,
                  selVars >>

\* line 18: os.remove(PATH + 'out') raises OSError when out is gone
check_file_remove(c) ==
  /\ cpc[c] = "remove"
  /\ IF out = NoFile
     THEN /\ cpc' = [cpc EXCEPT ![c] = "error"]
          /\ UNCHANGED << out, ops >>
     ELSE /\ cpc' = [cpc EXCEPT ![c] = "return"]
          /\ out' = NoFile
          /\ ops' = [ops EXCEPT ![c] = Append(@, <<"delete", "out">>)]
  /\ UNCHANGED << gpc, name, ret, request, recVars, visionVars, histVars, selVars >>

\* line 19: return name
check_file_return(c) ==
  /\ cpc[c] = "return"
  /\ ret' = [ret EXCEPT ![c] = name[c]]
  /\ cpc' = [cpc EXCEPT ![c] = "idle"]
  /\ UNCHANGED << gpc, name, ops, fileVars, recVars, visionVars, histVars, selVars >>

\* ------------------------------------------------------------------------
\* The peer of check_file: the gateway of the protocol description, which
\* answers a request with an out file (no code of the repository does)
\* ------------------------------------------------------------------------
Labels == {"alice", "bob"}

\* Idle -> RequestSeen: the request signal has appeared
GatewaySeeRequest ==
  /\ gpc = "Idle"
  /\ request
  /\ gpc' = "RequestSeen"
  /\ UNCHANGED << fileVars, handlerVars, recVars, visionVars, histVars, selVars >>

\* RequestSeen -> ResultPublished, first half: publish the label as out
GatewayPublish(l) ==
  /\ gpc = "RequestSeen"
  /\ out' = l
  /\ gpc' = "Publishing"
  /\ UNCHANGED << request, handlerVars, recVars, visionVars, histVars, selVars >>

\* RequestSeen -> ResultPublished, second half: then clear the request signal
GatewayClearRequest ==
  /\ gpc = "Publishing"
  /\ request' = FALSE
  /\ gpc' = "ResultPublished"
  /\ UNCHANGED << out, handlerVars, recVars, visionVars, histVars, selVars >>

\* ResultPublished -> Idle: the result signal has been consumed
GatewayAcknowledged ==
  /\ gpc = "ResultPublished"
  /\ out = NoFile
  /\ gpc' = "Idle"
  /\ UNCHANGED << fileVars, handlerVars, recVars, visionVars, histVars, selVars >>

\* ------------------------------------------------------------------------
\* Specification of the two processes
\* ------------------------------------------------------------------------
Next ==
  \/ VisionInit
  \/ FrameEmpty
  \/ \E bbs \in FrameLists : FrameFaces(bbs)
  \/ \E bbs \in FrameLists : FrameUnread(bbs)
  \/ RecImport
  \/ RecCleanOut
  \/ RecCleanRequest
  \/ recognize_face_server
  \/ \E c \in Handlers : check_file_mknod(c)
  \/ \E c \in Handlers : check_file_poll(c)

Spec == Init /\ [][Next]_vars

VisionNext ==
  \/ VisionInit
  \/ FrameEmpty
  \/ \E bbs \in FrameLists : FrameFaces(bbs)

RecNext == RecImport \/ RecCleanOut \/ RecCleanRequest \/ recognize_face_server

\* both processes and every handler thread keep being scheduled while they
\* have a step to take; the arrival of frames and of calls is not forced
FairSpec ==
  /\ Spec
  /\ WF_vars(VisionNext)
  /\ WF_vars(RecNext)
  /\ \A c \in Handlers : WF_vars(check_file_poll(c))

\* ------------------------------------------------------------------------
\* Specification of check_file against a peer that answers requests
\* ------------------------------------------------------------------------
\* the peer has started and has cleared its signals
ProtoInit ==
  /\ InitProgram
  /\ ~request
  /\ out = NoFile
  /\ gpc = "Idle"
  /\ sel_bbs = << >>
  /\ sel_ret = [outcome |-> "pending", value |-> 0]
  /\ det_ret = [outcome |-> "pending", value |-> FALSE]

ProtoNext ==
  \/ RecImport
  \/ RecCleanOut
  \/ RecCleanRequest
  \/ recognize_face_server
  \/ \E c \in Handlers : check_file_mknod(c)
  \/ \E c \in Handlers : check_file_poll(c)
  \/ \E c \in Handlers : check_file_read(c)
  \/ \E c \in Handlers : check_file_remove(c)
  \/ \E c \in Handlers : check_file_return(c)
  \/ GatewaySeeRequest
  \/ \E l \in Labels : GatewayPublish(l)
  \/ GatewayClearRequest
  \/ GatewayAcknowledged

ProtoSpec == ProtoInit /\ [][ProtoNext]_vars

\* ------------------------------------------------------------------------
\* Specification of the selector as a function
\* ------------------------------------------------------------------------
SelInit ==
  /\ InitProgram
  /\ gpc = "absent"
  /\ sel_bbs \in BoxLists
  /\ sel_ret = [outcome |-> "pending", value |-> 0]
  /\ det_ret = [outcome |-> "pending", value |-> FALSE]

Select ==
  /\ sel_ret.outcome = "pending"
  /\ sel_ret' = [outcome |-> "return", value |-> get_closest_face(sel_bbs)]
  /\ UNCHANGED << gpc, sel_bbs, det_ret, visionVars, recVars, fileVars, handlerVars,
                  histVars >>

Detect ==
  /\ det_ret.outcome = "pending"
  /\ det_ret' = [outcome |-> "return", value |-> face_detected(sel_bbs)]
  /\ UNCHANGED << gpc, sel_bbs, sel_ret, visionVars, recVars, fileVars, handlerVars,
                  histVars >>

SelNext == Select \/ Detect

SelSpec == SelInit /\ [][SelNext]_vars

\* ------------------------------------------------------------------------
\* Properties of the presence tracker
\* ------------------------------------------------------------------------
\* C1: a run of non-qualifying frames that begins while the tracker holds
\* Present leaves presence Present after its 1st, 2nd and 3rd frame and makes it
\* Absent after its (MISS_LIMIT+1)-th frame.
C1_DropOnFourthMiss ==
  runFromPresent =>
    /\ (run \in 1..MISS_LIMIT => Presence = "Present")
    /\ (run = MISS_LIMIT + 1 => Presence = "Absent")

\* C2: when a single non-qualifying frame lies between two qualifying frames,
\* presence is Present after that non-qualifying frame.
C2_SandwichedMissKeepsPresent ==
  ( /\ Len(hist) = 3
    /\ hist[1][1] = "Q"
    /\ hist[2][1] \in {"E", "N"}
    /\ hist[3][1] = "Q" ) => hist[2][2] = "Present"

\* C3: after the k-th frame of the scenario 50, 2000, 2000, 2000, 50, 50, 50, 50
\* (single-box frames, fed from the initial state) presence is the k-th of
\* Absent, Present, Present, Present, Present, Present, Present, Absent.
C3_ScenarioPresence ==
  \A k \in 1..Len(ScenarioAreas) : scen = k => Presence = ScenarioPresence[k]

\* C4: presence is Absent before the first frame, and after every qualifying
\* frame presence is Present.
C4_ImmediateLatch ==
  /\ (nframes = 0 => Presence = "Absent")
  /\ (Len(hist) > 0 /\ hist[Len(hist)][1] = "Q" => Presence = "Present")

\* ------------------------------------------------------------------------
\* Properties of the closest-face selector
\* ------------------------------------------------------------------------
ValidBox(bb) == bb[1] < bb[3] /\ bb[2] < bb[4]

\* C5: on a non-empty list of valid boxes get_closest_face returns an index of
\* a box of maximal area, and every box before it has a strictly smaller area.
C5_ClosestIsFirstMaximal ==
  ( /\ sel_ret.outcome = "return"
    /\ Len(sel_bbs) > 0
    /\ \A j \in 1..Len(sel_bbs) : ValidBox(sel_bbs[j]) ) =>
      /\ sel_ret.value \in 0..(Len(sel_bbs) - 1)
      /\ \A j \in 0..(Len(sel_bbs) - 1) :
           /\ Area(sel_bbs[sel_ret.value + 1]) >= Area(sel_bbs[j + 1])
           /\ (j < sel_ret.value =>
                 Area(sel_bbs[sel_ret.value + 1]) > Area(sel_bbs[j + 1]))

\* a call on a list whose maximal area is shared by several boxes has returned
C5_TieSelected ==
  /\ sel_ret.outcome = "return"
  /\ Len(sel_bbs) > 1
  /\ \E j \in 1..Len(sel_bbs) :
       /\ j # sel_ret.value + 1
       /\ Area(sel_bbs[j]) = MaxAreaOf(sel_bbs)

\* C6: a call of get_closest_face on the empty list ends in an error and
\* returns no index.
C6_EmptyListRaises ==
  (sel_ret.outcome # "pending" /\ Len(sel_bbs) = 0) => sel_ret.outcome = "raise"

\* C16: face_detected returns True exactly when the largest box area exceeds
\* 1500; it returns False for the empty list and for a largest area of 1500.
C16_DetectedIffAbove1500 ==
  det_ret.outcome = "return" => (det_ret.value <=> (MaxAreaOf(sel_bbs) > 1500))

\* face_detected has returned for a list whose largest area is exactly 1500
C16_BoundaryArea ==
  /\ det_ret.outcome = "return"
  /\ Len(sel_bbs) > 0
  /\ MaxAreaOf(sel_bbs) = 1500
  /\ det_ret.value = FALSE

\* ------------------------------------------------------------------------
\* Properties of the request/out protocol
\* ------------------------------------------------------------------------
Waiting(c) == cpc[c] = "poll"

C8_CycleCompletes ==
  \A c \in Handlers : Waiting(c) ~> (cpc[c] = "idle" /\ ~request /\ out = NoFile)

\* C9: at most one recognition job started by the frame loop is in progress.
C9_SerializedRecognition == jobs <= 1

\* the recognition trigger has been evaluated on a frame with faces while a
\* request was pending
C9_TriggerWithRequestPending ==
  /\ vpc = "crashed"
  /\ request
  /\ \E c \in Handlers : Waiting(c)

\* C10: once either process has finished its start-up, and until the first
\* client call, neither request nor out exists.
C10_StartupCleanup ==
  ((vpc # "init" \/ rpc \in {"serve", "spin"}) /\ ~called) =>
    (~request /\ out = NoFile)

\* ------------------------------------------------------------------------
\* Further properties of the two processes
\* ------------------------------------------------------------------------
\* the last frame the camera delivered, as recorded in hist
LastFrame == hist[Len(hist)]

\* a step in which the camera delivers a frame
FrameStep == nframes' = nframes + 1

\* C11: a request that is pending while no frame has shown a face yet is
\* answered: an out file is published and the vision process is still running.
C11_RequestBeforeFaceAnswered ==
  ((\E c \in Handlers : Waiting(c)) /\ ~faces_seen /\ vpc = "loop")
    ~> (out # NoFile /\ vpc = "loop")

\* C14: when VISION_COMM_PATH is unset the recognition service aborts at
\* start: it never gets past its import, no request or out file is created or
\* deleted, no service is registered and no check_file call runs.
C14_MissingPathIsFatal ==
  [][ ~env => /\ rpc' \in {"import", "aborted"}
              /\ request' = request
              /\ out' = out
              /\ cpc' = cpc
              /\ ~called' ]_vars

\* the service was started without the variable, with stale files on disk,
\* and has aborted
C14_AbortedWithStaleFiles ==
  /\ ~env
  /\ rpc = "aborted"
  /\ request
  /\ out # NoFile

\* a call of handler c has returned and c has not been called again
Returned(c) == cpc[c] = "idle" /\ ops[c] # << >>

\* no handler other than c has ever been called
OnlyCaller(c) ==
  \A d \in Handlers \ {c} : cpc[d] = "idle" /\ ops[d] = << >>

\* C12: a check_file call that has returned has, in this order, created
\* request, found out to exist, read out and deleted out; it has returned the
\* content it read; and when it is the only call, out no longer exists.
C12_AcknowledgmentOrder ==
  \A c \in Handlers :
    Returned(c) =>
      /\ Len(ops[c]) = 4
      /\ ops[c][1] = <<"create", "request">>
      /\ ops[c][2] = <<"exists", "out">>
      /\ ops[c][3][1] = "read"
      /\ ops[c][4] = <<"delete", "out">>
      /\ ret[c] = ops[c][3][2]
      /\ (OnlyCaller(c) => out = NoFile)

\* a single call has returned the label that was published for it
C12_SingleCallReturned ==
  \E c \in Handlers :
    /\ Returned(c)
    /\ OnlyCaller(c)
    /\ ret[c] \in Labels

\* C13: every check_file call that has created the request marker ends, with
\* a result or with a failure, also when no out file is ever published.
C13_ClientWaitEnds ==
  \A c \in Handlers : Waiting(c) ~> (cpc[c] \in {"idle", "error"})

\* C15: after every qualifying frame the loop has processed the miss counter
\* is 0.
C15_CounterResetOnQualifying ==
  (Len(hist) > 0 /\ LastFrame[1] = "Q" /\ LastFrame[3]) =>
    no_face_detect_counter = 0

\* C17: a frame with an empty detection list adds 1 to the miss counter, sets
\* presence to Absent exactly when the new counter exceeds 3, starts no
\* recognition job and invokes no selector; the selector is only ever invoked
\* on a frame with a non-empty list.
C17_EmptyFrameHandling ==
  [][ /\ (FrameStep /\ LastFrame'[1] = "E" /\ LastFrame'[3]) =>
           /\ no_face_detect_counter' = no_face_detect_counter + 1
           /\ face_nearby' = IF no_face_detect_counter' > 3 THEN FALSE ELSE face_nearby
           /\ jobs' = jobs
           /\ selected' = selected
      /\ (selected' # selected) => (FrameStep /\ LastFrame'[1] # "E") ]_vars

\* the loop has processed more than three empty frames in a row
C17_FourEmptyFrames ==
  /\ vpc = "loop"
  /\ Len(hist) = 3
  /\ \A k \in 1..3 : hist[k][1] = "E" /\ hist[k][3]
  /\ no_face_detect_counter > 3
  /\ ~face_nearby

\* C18: every frame the camera has delivered has been processed and the frame
\* loop is ready for its next iteration.
C18_FrameLoopKeepsRunning ==
  nframes > 0 => (vpc = "loop" /\ LastFrame[3])

\* C19: no check_file call fails with a file-exists or file-missing error on
\* request or out.
C19_NoFileErrors ==
  \A c \in Handlers : cpc[c] # "error"

====
